---- MODULE Spec2Model ----
(***************************************************************************)
(* The car simulator component (CarSimulator and its ControlButtons): the  *)
(* per-frame tick renderFrame, the key, pointer and visibility handlers,   *)
(* the reset handler, and React's re-render of the control buttons after   *)
(* every telemetry publish.                                                *)
(*                                                                         *)
(* Numbers.  The program computes in IEEE doubles; the model computes in   *)
(* fixed point and rounds each update once, to nearest:                    *)
(*   time      frames of 1/60 s (timestamps lie on the 60 Hz frame grid)   *)
(*   velocity  1/VelScale m/s  (acceleration in 1/AccScale m/s^2, so the   *)
(*             velocity integration acc * dt is exact)                     *)
(*   steering  1/SteerScale                                                *)
(*   heading   1/SteerScale degree (the program holds radians; PI rad is   *)
(*             180 degrees)                                                *)
(*   x, y      1/PosScale pixel                                            *)
(*   cos, sin  1/CosScale, from a table at whole degrees                   *)
(*                                                                         *)
(* Environment.  The browser delivers one event at a time.  Frame          *)
(* callbacks and input events reach the page only while it is visible      *)
(* (requestAnimationFrame is paused in a hidden page); a key or a pointer  *)
(* that is down when the page is hidden is still down when it shows again. *)
(* A keydown repeats while the key is held.  Lifting a pointer dispatches  *)
(* pointerup to the button and then mouseup or touchend, which bubbles to  *)
(* the window.                                                             *)
(*                                                                         *)
(* React.  Effects run before the next event is handled, so each action    *)
(* includes the re-render and the effects its handler causes: setTelemetry *)
(* always stores a new object, which re-renders CarSimulator and hands     *)
(* every ControlButton a new onChange closure; setIsActive re-renders one  *)
(* button when the value changes.  Drawing has no state and is left out.   *)
(***************************************************************************)
EXTENDS Integers, FiniteSets, Sequences

\* ------------------------------------------------------------ constants

CANVAS_WIDTH == 720
CANVAS_HEIGHT == 480
MAX_SPEED == 22
MAX_REVERSE_SPEED == -6
ACCELERATION == 8
BRAKE_FORCE == 14
ROLLING_RESISTANCE == 2
\* TURN_RATE = Math.PI radians per second, in degrees per second.
TURN_RATE == 180
STEERING_SMOOTHING == 4
PUBLISH_INTERVAL == 120
\* The margin of the safe rectangle (the literal 24 of the boundary clamp).
MARGIN == 24

\* Units of the fixed-point representation.
FramesPerSecond == 60
AccScale == 5
VelScale == AccScale * FramesPerSecond
SteerScale == 1000
PosScale == 10
CosScale == 1000

\* lastFrameRef.current = null
NoFrame == -1

ControlKey == {"throttle", "brake", "left", "right", "reverse"}

\* The key codes KEY_MAP binds.
MappedKeys ==
  {"ArrowUp", "KeyW", "ArrowDown", "KeyS", "ArrowLeft", "KeyA", "ArrowRight",
   "KeyD", "KeyX"}

KEY_MAP ==
  [k \in MappedKeys |->
    CASE k \in {"ArrowUp", "KeyW"} -> "throttle"
      [] k \in {"ArrowDown", "KeyX"} -> "brake"
      [] k = "KeyS" -> "reverse"
      [] k \in {"ArrowLeft", "KeyA"} -> "left"
      [] OTHER -> "right"]

\* ------------------------------------------------------------ bounds

\* Ticks per behaviour.
MaxFrames == 3
\* Frame gaps the environment may deliver between two ticks, in frames: none
\* (two callbacks with one timestamp), a short gap below the publish interval and
\* the smoothing horizon, and a stall (a backgrounded tab).
ShortGap == 6
LongGap == 120
\* Pointers that may be down at once.
MaxPointers == 2
\* How far outside the canvas a displaced start lies, in pixels.
Overshoot == 100

Gaps == {0, ShortGap, LongGap}

\* The timestamp after which an endless run moves the origin of its clock.
CoastHorizon == 24

\* The ticks of a launch: the first one (dt = 0) and a second of frames.
LaunchFrames == 61

\* The ticks of a run that turns on the spot.
PivotFrames == 4

\* ------------------------------------------------------------ arithmetic

Abs(n) == IF n < 0 THEN -n ELSE n

\* Math.sign
Sign(n) == IF n > 0 THEN 1 ELSE IF n < 0 THEN -1 ELSE 0

Min(a, b) == IF a < b THEN a ELSE b

Max(a, b) == IF a > b THEN a ELSE b

\* a / b rounded to the nearest integer, halves away from zero (b > 0).
RoundDiv(a, b) == Sign(a) * ((Abs(a) + b \div 2) \div b)

\* JavaScript's %: the remainder takes the sign of the dividend (b > 0).
JsRem(a, b) == Sign(a) * (Abs(a) % b)

SinTable ==
  <<0, 17, 35, 52, 70, 87, 105, 122, 139, 156, 174, 191, 208, 225, 242, 259,
    276, 292, 309, 326, 342, 358, 375, 391, 407, 423, 438, 454, 469, 485, 500,
    515, 530, 545, 559, 574, 588, 602, 616, 629, 643, 656, 669, 682, 695, 707,
    719, 731, 743, 755, 766, 777, 788, 799, 809, 819, 829, 839, 848, 857, 866,
    875, 883, 891, 899, 906, 914, 921, 927, 934, 940, 946, 951, 956, 961, 966,
    970, 974, 978, 982, 985, 988, 990, 993, 995, 996, 998, 999, 999, 1000,
    1000>>

\* sin of a whole number of degrees, times CosScale.
SinDeg(d) ==
  LET r == d % 360
  IN  IF r <= 90 THEN SinTable[r + 1]
      ELSE IF r <= 180 THEN SinTable[180 - r + 1]
      ELSE IF r <= 270 THEN -SinTable[r - 180 + 1]
      ELSE -SinTable[360 - r + 1]

\* Math.sin and Math.cos of a heading, times CosScale.
Sin(heading) == SinDeg(RoundDiv(heading, SteerScale))

Cos(heading) == SinDeg(RoundDiv(heading, SteerScale) + 90)

\* ------------------------------------------------------------ state

VARIABLES
  car,           \* carStateRef.current
  controls,      \* controlsRef.current
  lastFrame,     \* lastFrameRef.current (NoFrame: null)
  lastPublish,   \* lastPublishRef.current
  telemetry,     \* the telemetry state of CarSimulator
  pending,       \* a requestAnimationFrame callback is scheduled (animationRef)
  isActive,      \* each ControlButton's isActive state
  pointerCount,  \* each ControlButton's pointerCount.current
  now,           \* the environment's clock: the latest frame timestamp
  visible,       \* document.visibilityState = 'visible'
  keysHeld,      \* the keys physically down
  held,          \* the pointers physically down on each button
  frames,        \* ticks run so far (bounds the exploration)
  quiet,         \* no key-down or pointer-down since the last visibility loss
  zeroTick       \* the last event was a tick that computed dt = 0

vars ==
  <<car, controls, lastFrame, lastPublish, telemetry, pending, isActive,
    pointerCount, now, visible, keysHeld, held, frames, quiet, zeroTick>>

simVars == <<car, lastFrame, lastPublish, telemetry, pending, now, frames>>

buttonVars == <<isActive, pointerCount, held>>

INITIAL_STATE ==
  [x |-> (CANVAS_WIDTH * PosScale) \div 2,
   y |-> (CANVAS_HEIGHT * PosScale) \div 2,
   velocity |-> 0,
   heading |-> -((TURN_RATE * SteerScale) \div 2),
   steering |-> 0]

NoControls == [c \in ControlKey |-> FALSE]

ZeroTelemetry == [speed |-> 0, headingDeg |-> 0, acceleration |-> 0]

\* Everything but the car at mount.
InitRest ==
  /\ controls = NoControls
  /\ lastFrame = NoFrame
  /\ lastPublish = 0
  /\ telemetry = ZeroTelemetry
  /\ pending = TRUE
  /\ isActive = [b \in ControlKey |-> FALSE]
  /\ pointerCount = [b \in ControlKey |-> 0]
  /\ now = 0
  /\ visible = TRUE
  /\ keysHeld = {}
  /\ held = [b \in ControlKey |-> 0]
  /\ frames = 0
  /\ quiet = FALSE
  /\ zeroTick = FALSE

Init == car = INITIAL_STATE /\ InitRest

\* ------------------------------------------------------------ the stepper

\* dt of a tick, in frames: (timestamp - previousFrame) / 1000, or 0 on the first
\* tick after a start or a reset.
FrameDt(previousFrame, timestamp) ==
  IF previousFrame # NoFrame THEN timestamp - previousFrame ELSE 0

\* IntendedSteer with left winning over right when both are held.
IntendedSteerLeftWins(ctl) ==
  IF ctl["left"] THEN -SteerScale
  ELSE IF ctl["right"] THEN SteerScale
  ELSE 0

IntendedSteer(ctl) ==
  IF ctl["left"] = ctl["right"] THEN 0
  ELSE IF ctl["left"] THEN -SteerScale
  ELSE SteerScale

\* SmoothingFactor clamped at 2 instead of 1.
SmoothingFactorLooseClamp(dt) == Min(STEERING_SMOOTHING * dt, 2 * FramesPerSecond)

\* Math.min(STEERING_SMOOTHING * dt, 1), as a numerator over FramesPerSecond.
SmoothingFactor(dt) == Min(STEERING_SMOOTHING * dt, FramesPerSecond)

StepSteering(steering, ctl, dt) ==
  LET steerDelta == IntendedSteer(ctl) - steering
  IN  steering + RoundDiv(steerDelta * SmoothingFactor(dt), FramesPerSecond)

\* NetAcceleration with a rolling resistance stronger than the throttle.
NetAccelerationHeavyDrag(velocity, ctl) ==
  LET throttle == IF ctl["throttle"] THEN ACCELERATION * AccScale ELSE 0
      resistance ==
        5 * ROLLING_RESISTANCE * AccScale * Sign(IF velocity # 0 THEN velocity ELSE 1)
  IN  throttle - resistance

\* The net acceleration of a tick (in 1/AccScale m/s^2): throttle, reverse, brake,
\* then the rolling resistance against the sign of (velocity || 1).
NetAcceleration(velocity, ctl) ==
  LET throttle == IF ctl["throttle"] THEN ACCELERATION * AccScale ELSE 0
      reverse == IF ctl["reverse"] THEN (ACCELERATION * 6 * AccScale) \div 10 ELSE 0
      brake ==
        IF ctl["brake"] /\ velocity > 0 THEN BRAKE_FORCE * AccScale
        ELSE IF ctl["brake"] THEN ACCELERATION * AccScale
        ELSE 0
      resistance ==
        ROLLING_RESISTANCE * AccScale * Sign(IF velocity # 0 THEN velocity ELSE 1)
  IN  throttle - reverse - brake - resistance

\* ClampVelocity without its upper clamp.
ClampVelocityNoCeiling(v) ==
  IF v < MAX_REVERSE_SPEED * VelScale THEN MAX_REVERSE_SPEED * VelScale ELSE v

ClampVelocity(v) ==
  LET hi == IF v > MAX_SPEED * VelScale THEN MAX_SPEED * VelScale ELSE v
  IN  IF hi < MAX_REVERSE_SPEED * VelScale THEN MAX_REVERSE_SPEED * VelScale ELSE hi

\* SnapToRest without its condition on the acceleration.
SnapToRestAnyAcceleration(v, acceleration, ctl) ==
  IF ~ctl["throttle"] /\ ~ctl["reverse"] /\ 5 * Abs(v) < VelScale THEN 0 ELSE v

\* Snap-to-rest: |velocity| < 0.2 and |acceleration| < 0.5 with neither throttle
\* nor reverse held.
SnapToRest(v, acceleration, ctl) ==
  IF /\ ~ctl["throttle"]
     /\ ~ctl["reverse"]
     /\ 5 * Abs(v) < VelScale
     /\ 2 * Abs(acceleration) < AccScale
  THEN 0
  ELSE v

StepVelocity(velocity, acceleration, ctl, dt) ==
  SnapToRest(ClampVelocity(velocity + acceleration * dt), acceleration, ctl)

\* heading += steering * TURN_RATE * dt * min(|velocity| / MAX_SPEED, 1)
StepHeading(heading, steering, velocity, dt) ==
  LET speed == Min(Abs(velocity), MAX_SPEED * VelScale)
  IN  heading
        + RoundDiv(steering * dt * speed,
                   (FramesPerSecond * MAX_SPEED * VelScale) \div TURN_RATE)

\* ClampX without its right-hand clamp.
ClampXNoRightWall(x) ==
  IF x < MARGIN * PosScale THEN MARGIN * PosScale ELSE x

ClampX(x) ==
  LET lo == IF x < MARGIN * PosScale THEN MARGIN * PosScale ELSE x
  IN  IF lo > (CANVAS_WIDTH - MARGIN) * PosScale
      THEN (CANVAS_WIDTH - MARGIN) * PosScale
      ELSE lo

ClampY(y) ==
  LET lo == IF y < MARGIN * PosScale THEN MARGIN * PosScale ELSE y
  IN  IF lo > (CANVAS_HEIGHT - MARGIN) * PosScale
      THEN (CANVAS_HEIGHT - MARGIN) * PosScale
      ELSE lo

\* position += (cos, sin)(heading) * velocity * dt * 60 pixels
Displacement(unit, velocity, dt) ==
  RoundDiv(unit * velocity * dt, (CosScale * VelScale) \div PosScale)

\* The CarState a tick stores, from the one it read.
Step(c, ctl, dt) ==
  LET steering == StepSteering(c.steering, ctl, dt)
      acceleration == NetAcceleration(c.velocity, ctl)
      velocity == StepVelocity(c.velocity, acceleration, ctl, dt)
      heading == StepHeading(c.heading, steering, velocity, dt)
  IN  [x |-> ClampX(c.x + Displacement(Cos(heading), velocity, dt)),
       y |-> ClampY(c.y + Displacement(Sin(heading), velocity, dt)),
       velocity |-> velocity,
       heading |-> heading,
       steering |-> steering]

\* ------------------------------------------------------------ telemetry

\* ((heading * 180) / Math.PI + 360) % 360
HeadingDeg(heading) == JsRem(heading + 360 * SteerScale, 360 * SteerScale)

\* Math.abs(velocity) * 3.6, in 1 / (10 * VelScale) km/h
Speed(velocity) == Abs(velocity) * 36

Projection(c, acceleration) ==
  [speed |-> Speed(c.velocity),
   headingDeg |-> HeadingDeg(c.heading),
   acceleration |-> acceleration]

\* PublishDue on every frame later than the last publish.
PublishDueEveryFrame(timestamp, published) == timestamp - published > 0

\* timestamp - lastPublishRef.current > PUBLISH_INTERVAL, timestamps in frames and
\* the interval in milliseconds.
PublishDue(timestamp, published) ==
  (timestamp - published) * 1000 > PUBLISH_INTERVAL * FramesPerSecond

\* setTelemetry re-renders CarSimulator; every ControlButton then receives a new
\* onChange closure, so its effect runs again and calls onChange(isActive).
RerenderControls(ctl, active) == [c \in ControlKey |-> active[c]]

\* ------------------------------------------------------------ the tick

\* renderFrame(timestamp), with the canvas and its context ready: step the car,
\* store it, publish telemetry when due (which re-renders the buttons) and
\* schedule the next frame.
renderFrame(timestamp) ==
  LET dt == FrameDt(lastFrame, timestamp)
      acceleration == NetAcceleration(car.velocity, controls)
      next == Step(car, controls, dt)
  IN  /\ pending
      /\ visible
      /\ timestamp > 0
      /\ lastFrame' = timestamp
      /\ car' = next
      /\ IF PublishDue(timestamp, lastPublish)
         THEN /\ lastPublish' = timestamp
              /\ telemetry' = Projection(next, acceleration)
              /\ controls' = RerenderControls(controls, isActive)
         ELSE UNCHANGED <<lastPublish, telemetry, controls>>
      /\ pending' = TRUE
      /\ now' = timestamp
      /\ zeroTick' = (dt = 0)
      /\ UNCHANGED <<buttonVars, visible, keysHeld, quiet>>

\* renderFrame(timestamp) when canvasRef.current is null or getContext('2d')
\* returns null: the callback returns at once, before lastFrameRef is written
\* and before requestAnimationFrame is called.
renderFrameNoSurface(timestamp) ==
  /\ pending
  /\ visible
  /\ timestamp > 0
  /\ pending' = FALSE
  /\ now' = timestamp
  /\ zeroTick' = FALSE
  /\ UNCHANGED <<car, controls, lastFrame, lastPublish, telemetry, buttonVars,
                 visible, keysHeld, quiet>>

\* A tick of the animation loop, at most MaxFrames of them in a run.
Tick(timestamp) ==
  /\ frames < MaxFrames
  /\ frames' = frames + 1
  /\ renderFrame(timestamp)

\* ------------------------------------------------------------ reset

\* resetSimulation restoring the pose but not the heading.
resetKeepingHeading ==
  /\ visible
  /\ car' = [INITIAL_STATE EXCEPT !.heading = car.heading]
  /\ lastFrame' = NoFrame
  /\ telemetry' = ZeroTelemetry
  /\ controls' = RerenderControls(controls, isActive)
  /\ zeroTick' = FALSE
  /\ UNCHANGED <<lastPublish, pending, now, frames, buttonVars, visible,
                 keysHeld, quiet>>

\* resetSimulation leaving the last-frame timestamp as it is.
resetKeepingLastFrame ==
  /\ visible
  /\ car' = INITIAL_STATE
  /\ telemetry' = ZeroTelemetry
  /\ controls' = RerenderControls(controls, isActive)
  /\ zeroTick' = FALSE
  /\ UNCHANGED <<lastFrame, lastPublish, pending, now, frames, buttonVars,
                 visible, keysHeld, quiet>>

resetSimulation ==
  /\ visible
  /\ car' = INITIAL_STATE
  /\ lastFrame' = NoFrame
  /\ telemetry' = ZeroTelemetry
  /\ controls' = RerenderControls(controls, isActive)
  /\ zeroTick' = FALSE
  /\ UNCHANGED <<lastPublish, pending, now, frames, buttonVars, visible,
                 keysHeld, quiet>>

\* ------------------------------------------------------------ keyboard

applyControl(ctl, control, active) == [ctl EXCEPT ![control] = active]

handleKey(ctl, code, isDown) ==
  IF code \notin MappedKeys THEN ctl ELSE applyControl(ctl, KEY_MAP[code], isDown)

\* A keydown event: a first press, or the auto-repeat of a held key.
KeyDown(code) ==
  /\ visible
  /\ keysHeld' = keysHeld \cup {code}
  /\ controls' = handleKey(controls, code, TRUE)
  /\ quiet' = FALSE
  /\ zeroTick' = FALSE
  /\ UNCHANGED <<simVars, buttonVars, visible>>

KeyUp(code) ==
  /\ visible
  /\ code \in keysHeld
  /\ keysHeld' = keysHeld \ {code}
  /\ controls' = handleKey(controls, code, FALSE)
  /\ zeroTick' = FALSE
  /\ UNCHANGED <<simVars, buttonVars, visible, quiet>>

\* ------------------------------------------------------------ visibility

handleVisibility ==
  /\ visible' = ~visible
  /\ controls' = IF visible' THEN controls ELSE NoControls
  /\ quiet' = IF visible' THEN quiet ELSE TRUE
  /\ zeroTick' = FALSE
  /\ UNCHANGED <<simVars, buttonVars, keysHeld>>

\* ------------------------------------------------------------ control buttons

\* The effect of a ControlButton whose isActive changed: onChange(isActive).
ButtonEffects(ctl, before, after) ==
  [c \in ControlKey |-> IF before[c] # after[c] THEN after[c] ELSE ctl[c]]

\* handlePointerUp: the count after one release.
Released(count) == Max(0, count - 1)

\* A pointer goes down on button b.
handlePointerDown(b) ==
  LET active == [isActive EXCEPT ![b] = TRUE]
  IN  /\ visible
      /\ held[b] < MaxPointers
      /\ held' = [held EXCEPT ![b] = held[b] + 1]
      /\ pointerCount' = [pointerCount EXCEPT ![b] = pointerCount[b] + 1]
      /\ isActive' = active
      /\ controls' = ButtonEffects(controls, isActive, active)
      /\ quiet' = FALSE
      /\ zeroTick' = FALSE
      /\ UNCHANGED <<simVars, visible, keysHeld>>

\* The browser cancels a pointer that is down on button b (pointercancel):
\* handlePointerUp alone.
handlePointerCancel(b) ==
  LET count == Released(pointerCount[b])
      active == [isActive EXCEPT ![b] = IF count = 0 THEN FALSE ELSE isActive[b]]
  IN  /\ visible
      /\ held[b] > 0
      /\ held' = [held EXCEPT ![b] = held[b] - 1]
      /\ pointerCount' = [pointerCount EXCEPT ![b] = count]
      /\ isActive' = active
      /\ controls' = ButtonEffects(controls, isActive, active)
      /\ zeroTick' = FALSE
      /\ UNCHANGED <<simVars, visible, keysHeld, quiet>>

\* The window listener of every button (mouseup, touchend, touchcancel).
cancel ==
  /\ pointerCount' = [c \in ControlKey |-> 0]
  /\ isActive' = [c \in ControlKey |-> FALSE]
  /\ controls' = ButtonEffects(controls, isActive, [c \in ControlKey |-> FALSE])

\* A pointer is lifted from button b: pointerup on the button (handlePointerUp),
\* then the mouseup or touchend of the same release reaches the window, where
\* every button's cancel listens.
handlePointerUp(b) ==
  /\ visible
  /\ held[b] > 0
  /\ held' = [held EXCEPT ![b] = held[b] - 1]
  /\ cancel
  /\ zeroTick' = FALSE
  /\ UNCHANGED <<simVars, visible, keysHeld, quiet>>

\* A mouseup or touchend elsewhere on the page.
WindowCancel ==
  /\ visible
  /\ cancel
  /\ zeroTick' = FALSE
  /\ UNCHANGED <<simVars, visible, keysHeld, quiet, held>>

\* ------------------------------------------------------------ specifications

\* The keys and buttons the environment uses.
Keys == {"ArrowUp", "KeyW", "KeyQ"}
Buttons == {"brake"}

Next ==
  \/ \E gap \in Gaps : Tick(now + gap)
  \/ resetSimulation
  \/ \E code \in Keys : KeyDown(code)
  \/ \E code \in Keys : KeyUp(code)
  \/ handleVisibility
  \/ \E b \in Buttons : handlePointerDown(b)
  \/ \E b \in Buttons : handlePointerUp(b)
  \/ \E b \in Buttons : handlePointerCancel(b)
  \/ WindowCancel

Spec == Init /\ [][Next]_vars

\* Driving from the keyboard: throttle, reverse and both steering keys.
DriveKeys == {"ArrowUp", "KeyS", "ArrowLeft", "ArrowRight"}

NextDrive ==
  \/ \E gap \in Gaps : Tick(now + gap)
  \/ resetSimulation
  \/ \E code \in DriveKeys : KeyDown(code)
  \/ \E code \in DriveKeys : KeyUp(code)

SpecDrive == Init /\ [][NextDrive]_vars

\* Driving with every pedal: throttle, reverse and brake, and one steering key.
PedalKeys == {"ArrowUp", "KeyS", "KeyX", "ArrowLeft"}

NextPedals ==
  \/ \E gap \in Gaps : Tick(now + gap)
  \/ resetSimulation
  \/ \E code \in PedalKeys : KeyDown(code)
  \/ \E code \in PedalKeys : KeyUp(code)

SpecPedals == Init /\ [][NextPedals]_vars

\* The tick as a function of the CarState it reads: the stored position starts
\* anywhere, outside the canvas included.
StartX == {-Overshoot * PosScale, INITIAL_STATE.x, (CANVAS_WIDTH + Overshoot) * PosScale}
StartY == {-Overshoot * PosScale, INITIAL_STATE.y, (CANVAS_HEIGHT + Overshoot) * PosScale}

InitDisplaced ==
  /\ \E x0 \in StartX, y0 \in StartY :
       car = [INITIAL_STATE EXCEPT !.x = x0, !.y = y0]
  /\ InitRest

DisplacedKeys == {"ArrowUp", "ArrowLeft"}

NextDisplaced ==
  \/ \E gap \in Gaps : Tick(now + gap)
  \/ resetSimulation
  \/ \E code \in DisplacedKeys : KeyDown(code)
  \/ \E code \in DisplacedKeys : KeyUp(code)

SpecDisplaced == InitDisplaced /\ [][NextDisplaced]_vars

\* Turning on the spot: the right key and the throttle, with frame gaps of 50 ms
\* and 250 ms (a quarter second of right lock takes the steering to 1 while the
\* car rolls back to -0.5 m/s; 50 ms of throttle then bring it to rest).
PivotKeys == {"ArrowUp", "ArrowRight"}
PivotGaps == {3, 15}

PivotTick(gap) ==
  /\ frames < PivotFrames
  /\ frames' = frames + 1
  /\ renderFrame(now + gap)

NextPivot ==
  \/ \E gap \in PivotGaps : PivotTick(gap)
  \/ \E code \in PivotKeys : KeyDown(code)
  \/ \E code \in PivotKeys : KeyUp(code)

SpecPivot == Init /\ [][NextPivot]_vars

\* Coasting: the car right after a launch of one frame (the first tick, one
\* 1/60 s tick with the throttle key held, then the key released: velocity 0.1,
\* nothing published yet), left alone with frame gaps of 100 ms and 200 ms.
CoastGaps == {ShortGap, 2 * ShortGap}

InitCoast ==
  /\ car = Step(INITIAL_STATE, applyControl(NoControls, "throttle", TRUE), 1)
  /\ controls = NoControls
  /\ lastFrame = 2
  /\ lastPublish = 0
  /\ telemetry = ZeroTelemetry
  /\ pending = TRUE
  /\ isActive = [b \in ControlKey |-> FALSE]
  /\ pointerCount = [b \in ControlKey |-> 0]
  /\ now = 2
  /\ visible = TRUE
  /\ keysHeld = {}
  /\ held = [b \in ControlKey |-> 0]
  /\ frames = 2
  /\ quiet = FALSE
  /\ zeroTick = FALSE

\* A tick of a loop that runs for ever.
CoastTick(gap) ==
  /\ now < CoastHorizon
  /\ UNCHANGED frames
  /\ renderFrame(now + gap)

\* renderFrame reads the timestamps only through the differences
\* timestamp - previousFrame and timestamp - lastPublishRef.current, so the
\* origin of the clock can move to the latest frame without any effect on the
\* program; this keeps the timestamps of an endless run bounded.
ShiftTimeOrigin ==
  /\ lastFrame = now
  /\ now > 0
  /\ now' = 0
  /\ lastFrame' = 0
  /\ lastPublish' = lastPublish - now
  /\ UNCHANGED <<car, controls, telemetry, pending, buttonVars, visible,
                 keysHeld, frames, quiet, zeroTick>>

NextCoast ==
  \/ \E gap \in CoastGaps : CoastTick(gap)
  \/ ShiftTimeOrigin

\* What a CoastTick does to the clock. It is enabled exactly when a CoastTick
\* is, and the only steps of NextCoast that satisfy it are the CoastTicks.
CoastClock ==
  /\ pending
  /\ visible
  /\ now < CoastHorizon
  /\ \E gap \in CoastGaps : now' = now + gap

\* The browser keeps calling the scheduled frame callback while the page is
\* visible, and each call schedules the next: the ticks never stop.
SpecCoast ==
  /\ InitCoast
  /\ [][NextCoast]_vars
  /\ WF_now(CoastClock)
  /\ WF_vars(ShiftTimeOrigin)

\* A launch: the throttle button is pressed before the first frame and the loop
\* then runs at 60 frames per second; the button may be let go at any time.
LaunchTick ==
  /\ frames < LaunchFrames
  /\ frames' = frames + 1
  /\ renderFrame(now + 1)

LaunchPress == frames = 0 /\ handlePointerDown("throttle")

NextLaunch ==
  \/ LaunchTick
  \/ LaunchPress
  \/ handlePointerUp("throttle")

SpecLaunch == Init /\ [][NextLaunch]_vars

\* A surface that may not be ready: on any frame the canvas or its 2D context
\* may be missing.
SurfaceKeys == {"ArrowUp", "ArrowLeft"}

TickNoSurface(timestamp) ==
  /\ frames < MaxFrames
  /\ frames' = frames + 1
  /\ renderFrameNoSurface(timestamp)

NextSurface ==
  \/ \E gap \in Gaps : Tick(now + gap)
  \/ \E gap \in Gaps : TickNoSurface(now + gap)
  \/ resetSimulation
  \/ \E code \in SurfaceKeys : KeyDown(code)
  \/ \E code \in SurfaceKeys : KeyUp(code)

SpecSurface == Init /\ [][NextSurface]_vars

\* ------------------------------------------------------------ claims

\* C1: in every reachable state the velocity lies in
\* [MAX_REVERSE_SPEED, MAX_SPEED] = [-6, 22].
C1_VelocityInRange ==
  /\ car.velocity >= -6 * VelScale
  /\ car.velocity <= 22 * VelScale

\* A tick has integrated past MAX_SPEED and the clamp has stopped it there.
C1_Witness ==
  /\ lastFrame # NoFrame
  /\ car.velocity = MAX_SPEED * VelScale

\* C2: after every tick, from any starting position (one outside the rectangle
\* included), x lies in [24, CANVAS_WIDTH - 24] and y in [24, CANVAS_HEIGHT - 24];
\* so do the initial and the reset position.
C2_PositionInRectangle ==
  (frames > 0 \/ car = INITIAL_STATE) =>
    /\ car.x >= 24 * PosScale
    /\ car.x <= (CANVAS_WIDTH - 24) * PosScale
    /\ car.y >= 24 * PosScale
    /\ car.y <= (CANVAS_HEIGHT - 24) * PosScale

\* The first tick (dt = 0, so the car has not moved) has brought a car that
\* started right of and above the canvas to the top right corner of the rectangle.
C2_Witness ==
  /\ frames = 1
  /\ zeroTick
  /\ car.x = (CANVAS_WIDTH - MARGIN) * PosScale
  /\ car.y = MARGIN * PosScale

\* C3: in every reachable state the steering lies in [-1, 1].
C3_SteeringInRange ==
  /\ car.steering >= -SteerScale
  /\ car.steering <= SteerScale

\* A tick whose STEERING_SMOOTHING * dt exceeds 1 has taken the steering all
\* the way to a target of -1 or 1 (shorter ticks stop short of it).
C3_Witness ==
  /\ lastFrame # NoFrame
  /\ Abs(car.steering) = SteerScale

\* C4: a control with two keys bound to it is the OR of the keys held: releasing
\* one of them leaves the flag true while the other is still held.
C4_FlagIsOrOfKeys ==
  [][\A code \in MappedKeys :
       ( /\ KeyUp(code)
         /\ controls[KEY_MAP[code]]
         /\ \E other \in keysHeld' \cap MappedKeys : KEY_MAP[other] = KEY_MAP[code] )
       => controls'[KEY_MAP[code]]]_vars

\* C5: a reset leaves CarState at x = CANVAS_WIDTH / 2, y = CANVAS_HEIGHT / 2,
\* velocity = 0, heading = -PI / 2 (-90 degrees), steering = 0.
C5_ResetRestoresInitial ==
  [][resetSimulation =>
       car' = [x |-> 360 * PosScale,
               y |-> 240 * PosScale,
               velocity |-> 0,
               heading |-> -90 * SteerScale,
               steering |-> 0]]_vars

\* A reset has run after ticks and key presses, and no tick has run since.
C5_Witness ==
  /\ frames >= 2
  /\ lastPublish > 0
  /\ keysHeld # {}
  /\ lastFrame = NoFrame
  /\ car = INITIAL_STATE

\* C6: a reset does not alter the control flags (held keys and buttons remain
\* held through it, the re-render it triggers included).
C6_ResetKeepsFlags == [][resetSimulation => controls' = controls]_vars

\* C7: after a visibility loss no flag is true at a later tick until a new
\* key-down or pointer-down.
C7_FlagsStayClearedAtTicks ==
  [][(quiet /\ \E gap \in Gaps : Tick(now + gap)) => controls' = NoControls]_vars

\* C8: releasing one of several pointers held on a button leaves the button
\* active and its flag true.
C8_ReleaseIsCounted ==
  [][\A b \in ControlKey :
       (handlePointerUp(b) /\ controls[b] /\ held'[b] > 0)
       => (isActive'[b] /\ controls'[b])]_vars

\* C9: a tick never changes a control flag.
C9_TickKeepsFlags ==
  [][(\E gap \in Gaps : Tick(now + gap)) => controls' = controls]_vars

\* C10: a tick with dt = 0 leaves x, y, velocity, heading and steering unchanged.
C10_ZeroDtIsIdentity ==
  [][\A gap \in Gaps :
       (Tick(now + gap) /\ FrameDt(lastFrame, now + gap) = 0) => car' = car]_vars

\* A tick has computed dt = 0 on a moving, steered car with throttle and left held.
C10_Witness ==
  /\ zeroTick
  /\ car.velocity # 0
  /\ car.steering # 0
  /\ car # INITIAL_STATE
  /\ controls["throttle"]
  /\ controls["left"]

\* C11: a tick that finds velocity = 0 and steering = 1 leaves the heading
\* unchanged, for every dt >= 0 and every combination of control flags.
C11_NoTurningAtRest ==
  [][\A gap \in PivotGaps :
       (PivotTick(gap) /\ car.velocity = 0 /\ car.steering = SteerScale)
       => car'.heading = car.heading]_vars

\* No throttle, reverse or brake flag is set.
Coasting == ~controls["throttle"] /\ ~controls["reverse"] /\ ~controls["brake"]

\* C12: from velocity = 0.1, with throttle, reverse and brake never held,
\* repeated ticks with dt > 0 eventually reach velocity = 0 exactly.
C12_CoastingReachesRest ==
  []((car.velocity = VelScale \div 10 /\ []Coasting) => <>(car.velocity = 0))

\* Throttle is the only flag set.
ThrottleOnly == controls = applyControl(NoControls, "throttle", TRUE)

\* C13: from rest, with throttle the only flag held, over 60 consecutive ticks
\* of dt = 1/60 the velocity never decreases from one tick to the next and never
\* exceeds MAX_SPEED; below MAX_SPEED a tick with dt > 0 raises it.
C13_LaunchIsMonotone ==
  [][(LaunchTick /\ ThrottleOnly) =>
       /\ car'.velocity >= car.velocity
       /\ car'.velocity <= MAX_SPEED * VelScale
       /\ (lastFrame # NoFrame /\ car.velocity < MAX_SPEED * VelScale)
            => car'.velocity > car.velocity]_vars

\* The throttle button has been held through the first tick and every 1/60 s
\* tick after it, each of which added (ACCELERATION - ROLLING_RESISTANCE) / 60.
C13_Witness ==
  /\ frames = LaunchFrames
  /\ ThrottleOnly
  /\ held["throttle"] > 0
  /\ car.velocity =
       (LaunchFrames - 1) * (ACCELERATION - ROLLING_RESISTANCE) * AccScale

\* C14: on a tick where left and right are both true or both false the steering
\* target is 0: the magnitude of steering does not increase, its sign does not
\* flip, with dt > 0 a steering other than 0 moves toward 0, and it reaches 0
\* exactly when STEERING_SMOOTHING * dt >= 1.
C14_SteeringReturnsToCentre ==
  [][\A gap \in Gaps :
       (Tick(now + gap) /\ controls["left"] = controls["right"]) =>
         LET dt == FrameDt(lastFrame, now + gap)
         IN  /\ Abs(car'.steering) <= Abs(car.steering)
             /\ car'.steering * car.steering >= 0
             /\ (dt > 0 /\ car.steering # 0)
                  => Abs(car'.steering) < Abs(car.steering)
             /\ STEERING_SMOOTHING * dt >= FramesPerSecond
                  => car'.steering = 0]_vars

\* Right lock built up over one short tick has decayed over the next short tick,
\* run with left and right both held.
C14_Witness ==
  /\ frames = 3
  /\ controls["left"]
  /\ controls["right"]
  /\ car.steering > 0
  /\ car.steering =
       StepSteering(StepSteering(0, applyControl(NoControls, "right", TRUE), ShortGap),
                    NoControls, ShortGap)

\* C15: at every publish, by a tick or by a reset, the telemetry is the
\* projection of the CarState of that moment: speed = |velocity| * 3.6 and
\* headingDeg = the heading in degrees normalized to [0, 360); right after a
\* reset headingDeg is that of the initial heading -PI / 2.
C15_TelemetryIsProjection ==
  [][( \/ resetSimulation
       \/ \E gap \in Gaps : Tick(now + gap) /\ PublishDue(now + gap, lastPublish) )
     => /\ telemetry'.speed = Abs(car'.velocity) * 36
        /\ telemetry'.headingDeg = car'.heading % (360 * SteerScale)]_vars

\* C16: every published headingDeg lies in [0, 360), also for headings that
\* have accumulated below -360 degrees or above 360 degrees.
C16_HeadingDegInRange ==
  /\ telemetry.headingDeg >= 0
  /\ telemetry.headingDeg < 360 * SteerScale

\* C17: two consecutive publishes made by ticks have frame timestamps more than
\* PUBLISH_INTERVAL (120 ms) apart, and every tick, publishing or not, steps
\* CarState and stores it.
C17_PublishesAreThrottled ==
  [][\A gap \in Gaps :
       Tick(now + gap) =>
         /\ (lastPublish' # lastPublish /\ lastPublish > 0)
              => (lastPublish' - lastPublish) * 1000 > 120 * FramesPerSecond
         /\ car' = Step(car, controls, FrameDt(lastFrame, now + gap))
         /\ lastFrame' = now + gap]_vars

\* A tick has published, the next one 100 ms later has stepped the car without
\* publishing, and a third tick has published again.
C17_Witness ==
  /\ frames = 3
  /\ lastFrame = 2 * LongGap + ShortGap
  /\ lastPublish = lastFrame
  /\ car.velocity # 0

\* C18: a tick that finds the canvas or its 2D context not ready only skips
\* that frame: the next-frame callback is scheduled again, so a later tick
\* still runs.
C18_LoopSurvivesMissingSurface ==
  [][\A gap \in Gaps : TickNoSurface(now + gap) => pending']_vars

\* C19: a reset clears the last-frame timestamp; the first tick after a reset
\* or after the start computes dt = 0 whatever the time elapsed and the flags
\* held, and leaves CarState equal to the initial state; every other tick
\* integrates the gap since the tick before it.
C19_ResetRestartsTheClock ==
  [][/\ resetSimulation => lastFrame' = NoFrame
     /\ \A gap \in Gaps :
          Tick(now + gap) =>
            IF lastFrame = NoFrame
            THEN FrameDt(lastFrame, now + gap) = 0 /\ car' = INITIAL_STATE
            ELSE FrameDt(lastFrame, now + gap) = gap]_vars

\* After two ticks 2 s apart a reset has run, the throttle key has repeated, and
\* the next tick, 100 ms later, has computed dt = 0 and left the car as the
\* reset put it.
C19_Witness ==
  /\ zeroTick
  /\ frames = 3
  /\ now = 2 * LongGap + ShortGap
  /\ controls["throttle"]
  /\ car = INITIAL_STATE

\* C20: rest is a fixed point of the tick when nothing is commanded: a tick with
\* dt > 0 that finds velocity = 0 and all five flags false leaves velocity at 0
\* and x, y and heading unchanged.
C20_RestIsFixedPoint ==
  [][\A gap \in Gaps :
       ( /\ Tick(now + gap)
         /\ FrameDt(lastFrame, now + gap) > 0
         /\ car.velocity = 0
         /\ controls = NoControls )
       => /\ car'.velocity = 0
          /\ car'.x = car.x
          /\ car'.y = car.y
          /\ car'.heading = car.heading]_vars

====
